---- MODULE Spec2Model ----
(***************************************************************************)
(* A model of the KMS: the keyring construction (ed25519/keyring.rs), the  *)
(* per-validator client thread with its respawn loop (client.rs) and the   *)
(* session that serves signing requests (session.rs).                      *)
(***************************************************************************)
EXTENDS Naturals, Sequences, FiniteSets, TLC

\* ------------------------------------------------------------------ bounds
\* Longest list of signers handed to Keyring::from_signers.
MaxSigners == 3
\* Most requests a validator sends over one connection.
MaxReqs == 2
\* The configured maximum length of a message to sign, in bytes.
MaxMsgLen == 2

\* How long to wait after a crash before respawning (in seconds).
RESPAWN_DELAY == 5

\* ----------------------------------------------------------------- domains
\* The validators of the configuration, one client thread each.
Sups == {"v1", "v2"}

\* Public key values (each stands for one 32-byte ed25519 public key).
Pks == {"k1", "k2"}

\* What Signer::public_key() yields: a key, or "fail" when the provider
\* cannot derive it.  Signers a and b hold the same key.
SignerPool ==
    { [key_id |-> "a", pub |-> "k1"],
      [key_id |-> "b", pub |-> "k1"],
      [key_id |-> "c", pub |-> "k2"],
      [key_id |-> "d", pub |-> "fail"] }

\* The signers of the configurations the running process is explored
\* with: k2 is the key that no configured signer holds.
ConfiguredPool == {sg \in SignerPool : sg.pub # "k2"}

\* Messages to sign, as byte strings (the empty message included).
Msgs == {<< >>, <<1>>}

\* The public_key field of a SignRequest: a byte vector of some length.
KeyBytes ==
    { [len |-> 32, val |-> "k1"],
      [len |-> 32, val |-> "k2"],
      [len |-> 31, val |-> "k1"] }

Requests == [public_key : KeyBytes, msg : Msgs]

\* ValidatorConfig.reconnect : Option<bool>
ReconnectOpts == {"unset", "true", "false"}

\* Panic payloads as client_loop tells them apart: a message (String or
\* &str) or anything else.
Payloads == {"msg", "unknown"}

BoundedSeqs(S, n) == UNION {[1..k -> S] : k \in 0..n}

\* ------------------------------------------------------------------- state
VARIABLES
    proc,       \* the process: "startup", "running", "failed", "crashed"
    signers,    \* from_signers: the signers not yet visited
    keys,       \* from_signers: the local map being filled
    keyring,    \* {} before/without a Keyring, {map} once built
    reconnect,  \* per validator: config.reconnect
    pc,         \* per validator: position of its client thread
    result,     \* per validator: what catch_unwind returned this iteration
    session,    \* per validator: the live Session objects of its thread
    lastlog,    \* per validator: the most recent log line of its thread
    joined,     \* validators whose Client::join has returned
    wire,       \* a message on its way through the wire format
    waited      \* per validator: seconds slept since its last dial

vars == <<proc, signers, keys, keyring, reconnect, pc, result, session,
          lastlog, joined, wire, waited>>

supvars(s) ==
    <<reconnect[s], pc[s], result[s], session[s], lastlog[s], waited[s]>>

\* --------------------------------------------------------------- hash maps
EmptyMap == [k \in {} |-> "a"]

\* HashMap::insert: a later insert under the same key replaces the value.
Insert(m, k, v) == [x \in (DOMAIN m) \cup {k} |-> IF x = k THEN v ELSE m[x]]

\* ------------------------------------------------------- results and logs
NoResult == [tag |-> "None", detail |-> "-"]
OkUnit == [tag |-> "Ok", detail |-> "-"]
ErrOf(e) == [tag |-> "Err", detail |-> e]
PanicOf(p) == [tag |-> "Panic", detail |-> p]

\* ----------------------------------------------------------------- signing
\* The ed25519 signature of signer key_id over msg.
Signature(key_id, msg) == [signer |-> key_id, msg |-> msg]

PubOf(key_id) == (CHOOSE sg \in SignerPool : sg.key_id = key_id).pub

\* Standard verification: the signature is over msg by the holder of pk.
Verifies(pk, msg, sig) == sig.msg = msg /\ PubOf(sig.signer) = pk

\* PublicKey::from_bytes: exactly 32 bytes, else an error.
PublicKey_from_bytes(bytes) ==
    IF bytes.len = 32 THEN [ok |-> TRUE, pk |-> bytes.val, err |-> "-"]
    ELSE [ok |-> FALSE, pk |-> "-", err |-> "ProtocolError"]

\* A variant that reports a key it does not hold as a provider failure.
Keyring_sign_no_invalid_key(kr, pk, msg, so) ==
    IF pk \notin DOMAIN kr \/ so # "ok"
    THEN [ok |-> FALSE, sig |-> Signature("-", msg), err |-> "ProviderError"]
    ELSE [ok |-> TRUE, sig |-> Signature(kr[pk], msg), err |-> "-"]

\* Keyring::sign(pk, msg): look the key up, let its signer sign.
\* so is the signer's outcome: "ok" or "fail".
Keyring_sign(kr, pk, msg, so) ==
    IF pk \notin DOMAIN kr
    THEN [ok |-> FALSE, sig |-> Signature("-", msg), err |-> "InvalidKey"]
    ELSE IF so # "ok"
    THEN [ok |-> FALSE, sig |-> Signature("-", msg), err |-> "ProviderError"]
    ELSE [ok |-> TRUE, sig |-> Signature(kr[pk], msg), err |-> "-"]

\* A variant that looks the key up without checking its length first.
Session_sign_unchecked(kr, request, so) ==
    LET signature == Keyring_sign(kr, request.public_key.val, request.msg, so)
    IN
    IF ~signature.ok
    THEN [ok |-> FALSE, response |-> << >>, err |-> signature.err]
    ELSE [ok |-> TRUE,
          response |-> <<[tag |-> 0, sig |-> signature.sig]>>,
          err |-> "-"]

\* Session::sign
Session_sign(kr, request, so) ==
    LET pk == PublicKey_from_bytes(request.public_key) IN
    IF ~pk.ok
    THEN [ok |-> FALSE, response |-> << >>, err |-> pk.err]
    ELSE LET signature == Keyring_sign(kr, pk.pk, request.msg, so) IN
         IF ~signature.ok
         THEN [ok |-> FALSE, response |-> << >>, err |-> signature.err]
         ELSE [ok |-> TRUE,
               response |-> <<[tag |-> 0, sig |-> signature.sig]>>,
               err |-> "-"]

\* What Request::read yields on the socket: a decoded request, or an error
\* (an I/O failure, a malformed frame, the end of the stream).
ReadOutcomes ==
    { [ok |-> TRUE, req |-> r, err |-> "-"] : r \in Requests }
    \cup { [ok |-> FALSE, req |-> CHOOSE r \in Requests : TRUE, err |-> e] :
             e \in {"ConnectionError", "ProtocolError", "Eof"} }

\* A variant that builds the response and returns without writing it.
handle_request_no_write(kr, rd, so, wo) ==
    IF ~rd.ok
    THEN [ok |-> FALSE, read |-> << >>, wrote |-> << >>, err |-> rd.err]
    ELSE LET response == Session_sign(kr, rd.req, so) IN
         IF ~response.ok
         THEN [ok |-> FALSE, read |-> <<rd.req>>, wrote |-> << >>,
               err |-> response.err]
         ELSE [ok |-> TRUE, read |-> <<rd.req>>, wrote |-> << >>,
               err |-> "-"]

\* A variant that answers a failed signature with an error frame and
\* goes on serving.
handle_request_in_band(kr, rd, so, wo) ==
    IF ~rd.ok
    THEN [ok |-> FALSE, read |-> << >>, wrote |-> << >>, err |-> rd.err]
    ELSE LET response == Session_sign(kr, rd.req, so) IN
         IF ~response.ok
         THEN [ok |-> wo, read |-> <<rd.req>>,
               wrote |-> IF wo THEN <<[tag |-> 1, sig |-> response.err]>>
                         ELSE << >>,
               err |-> IF wo THEN "-" ELSE "ConnectionError"]
         ELSE IF ~wo
         THEN [ok |-> FALSE, read |-> <<rd.req>>, wrote |-> << >>,
               err |-> "ConnectionError"]
         ELSE [ok |-> TRUE, read |-> <<rd.req>>, wrote |-> response.response,
               err |-> "-"]

\* A variant that writes the response to a request twice.
handle_request_write_twice(kr, rd, so, wo) ==
    IF ~rd.ok
    THEN [ok |-> FALSE, read |-> << >>, wrote |-> << >>, err |-> rd.err]
    ELSE LET response == Session_sign(kr, rd.req, so) IN
         IF ~response.ok
         THEN [ok |-> FALSE, read |-> <<rd.req>>, wrote |-> << >>,
               err |-> response.err]
         ELSE IF ~wo
         THEN [ok |-> FALSE, read |-> <<rd.req>>, wrote |-> << >>,
               err |-> "ConnectionError"]
         ELSE [ok |-> TRUE, read |-> <<rd.req>>,
               wrote |-> response.response \o response.response,
               err |-> "-"]

\* Session::handle_request: read one request, sign, write the response.
\* rd is what the read yields, so the signer's outcome, wo whether the
\* write succeeds.  Each `?` returns the error at once.
handle_request(kr, rd, so, wo) ==
    IF ~rd.ok
    THEN [ok |-> FALSE, read |-> << >>, wrote |-> << >>, err |-> rd.err]
    ELSE LET response == Session_sign(kr, rd.req, so) IN
         IF ~response.ok
         THEN [ok |-> FALSE, read |-> <<rd.req>>, wrote |-> << >>,
               err |-> response.err]
         ELSE IF ~wo
         THEN [ok |-> FALSE, read |-> <<rd.req>>, wrote |-> << >>,
               err |-> "ConnectionError"]
         ELSE [ok |-> TRUE, read |-> <<rd.req>>, wrote |-> response.response,
               err |-> "-"]

\* ------------------------------------------------------------- wire format
\* A message is a tag byte and a payload.  Request::Sign is tag 0, the 32
\* bytes of the public key, the length of the message as 4 bytes
\* big-endian, the message; Response::Sign is tag 0 and the 64 bytes of
\* the signature.

\* A message in one shape: fields a kind does not have are empty.
SignRequestMsg(pk, m) ==
    [kind |-> "Request", public_key |-> pk, msg |-> m, sig |-> << >>]

SignResponseMsg(sg) ==
    [kind |-> "Response", public_key |-> << >>, msg |-> << >>, sig |-> sg]

\* A variant writing the length with the least significant byte first.
u32_le(n) ==
    << n % 256, (n \div 256) % 256, (n \div 65536) % 256,
       (n \div 16777216) % 256 >>

u32_be(n) ==
    << (n \div 16777216) % 256, (n \div 65536) % 256, (n \div 256) % 256,
       n % 256 >>

u32_from_be(b) == ((b[1] * 256 + b[2]) * 256 + b[3]) * 256 + b[4]

\* Request::to_vec / Response::to_vec
to_vec(m) ==
    IF m.kind = "Request"
    THEN <<0>> \o m.public_key \o u32_be(Len(m.msg)) \o m.msg
    ELSE <<0>> \o m.sig

DecodeError(e) ==
    [ok |-> FALSE, err |-> e,
     value |-> [kind |-> "-", public_key |-> << >>, msg |-> << >>,
                sig |-> << >>],
     rest |-> << >>]

\* Request::read / Response::read on the bytes b of the stream: the
\* message decoded and the bytes left, or a ProtocolError for an unknown
\* tag, a truncated field or a length over the maximum.
read(kind, b) ==
    IF Len(b) < 1 THEN DecodeError("truncated")
    ELSE IF b[1] # 0 THEN DecodeError("unknown tag")
    ELSE IF kind = "Request"
    THEN IF Len(b) < 37 THEN DecodeError("truncated")
         ELSE LET n == u32_from_be(SubSeq(b, 34, 37)) IN
              IF n > MaxMsgLen THEN DecodeError("too long")
              ELSE IF Len(b) < 37 + n THEN DecodeError("truncated")
              ELSE [ok |-> TRUE, err |-> "-",
                    value |-> SignRequestMsg(SubSeq(b, 2, 33),
                                             SubSeq(b, 38, 37 + n)),
                    rest |-> SubSeq(b, 38 + n, Len(b))]
    ELSE IF Len(b) < 65 THEN DecodeError("truncated")
         ELSE [ok |-> TRUE, err |-> "-",
               value |-> SignResponseMsg(SubSeq(b, 2, 65)),
               rest |-> SubSeq(b, 66, Len(b))]

\* Byte vectors of n bytes, all x but the first, which is y.
Filled(n, x, y) == [i \in 1..n |-> IF i = 1 THEN y ELSE x]

\* The messages put through the wire format: public keys of 32 bytes with
\* messages of up to MaxMsgLen bytes, and signatures of 64 bytes.
WireMessages ==
    { SignRequestMsg(Filled(32, x, y), m) :
        x \in {0, 255}, y \in {0, 7},
        m \in BoundedSeqs({0, 1, 255}, MaxMsgLen) }
    \cup { SignResponseMsg(Filled(64, x, y)) : x \in {0, 255}, y \in {0, 7} }

WireIdle == [stage |-> "idle", value |-> DecodeError("-").value,
             bytes |-> << >>, back |-> DecodeError("-")]

\* ------------------------------------------------------------- client loop
\* panic::catch_unwind around client_session: a panic becomes Err(payload),
\* anything else is handed through as Ok(result).
\* unwinds tells whether the panic goes on unwinding past the closure of
\* the thread.
no_catch_unwind(o) == [unwinds |-> o.tag = "Panic", value |-> o]

catch_unwind(o) == [unwinds |-> FALSE, value |-> o]

NoLog == [level |-> "-", target |-> "-", text |-> "-", detail |-> "-"]

\* A variant without the last else branch: a panic whose payload is no
\* string leaves no line.
LogLine_no_else(s, r) ==
    IF r.tag = "Ok"
    THEN [level |-> "info", target |-> s,
          text |-> "session closed gracefully", detail |-> "-"]
    ELSE IF r.tag = "Err"
    THEN [level |-> "error", target |-> s, text |-> "error",
          detail |-> r.detail]
    ELSE IF r.detail = "msg"
    THEN [level |-> "error", target |-> s, text |-> "client panic!",
          detail |-> "msg"]
    ELSE NoLog

\* The log line client_loop writes for a result of catch_unwind.
LogLine(s, r) ==
    IF r.tag = "Ok"
    THEN [level |-> "info", target |-> s,
          text |-> "session closed gracefully", detail |-> "-"]
    ELSE IF r.tag = "Err"
    THEN [level |-> "error", target |-> s, text |-> "error",
          detail |-> r.detail]
    ELSE IF r.detail = "msg"
    THEN [level |-> "error", target |-> s, text |-> "client panic!",
          detail |-> "msg"]
    ELSE [level |-> "error", target |-> s, text |-> "client panic!",
          detail |-> "(unknown cause)"]

\* Variants of the reconnect check: the negation lost, and an unset option
\* read as "do not reconnect".
ReconnectDisabled_negated(rc) == rc # "unset" /\ rc = "true"

ReconnectDisabled_default_off(rc) == rc # "true"

\* Break out of the loop if auto-reconnect is explicitly disabled.
ReconnectDisabled(rc) == rc # "unset" /\ rc = "false"

\* -------------------------------------------------------------------- Init
Init ==
    /\ proc = "startup"
    /\ signers \in BoundedSeqs(ConfiguredPool, MaxSigners)
    /\ keys = EmptyMap
    /\ keyring = {}
    /\ reconnect \in [Sups -> ReconnectOpts]
    /\ pc = [s \in Sups |-> "idle"]
    /\ result = [s \in Sups |-> NoResult]
    /\ session = [s \in Sups |-> {}]
    /\ lastlog = [s \in Sups |-> NoLog]
    /\ joined = {}
    /\ wire = WireIdle
    /\ waited = [s \in Sups |-> 0]

\* ----------------------------------------------------------------- actions
\* A variant of the loop body that goes on to the next signer when a
\* public key cannot be derived.
from_signers_skip(sgs, ks) ==
    IF sgs = << >>
    THEN [ret |-> "Ok", signers |-> sgs, keys |-> ks]
    ELSE IF Head(sgs).pub = "fail"
    THEN [ret |-> "-", signers |-> Tail(sgs), keys |-> ks]
    ELSE [ret |-> "-", signers |-> Tail(sgs),
          keys |-> Insert(ks, Head(sgs).pub, Head(sgs).key_id)]

\* A variant that keeps the first signer of a public key (an insert only
\* where the key is vacant).
from_signers_first_wins(sgs, ks) ==
    IF sgs = << >>
    THEN [ret |-> "Ok", signers |-> sgs, keys |-> ks]
    ELSE IF Head(sgs).pub = "fail"
    THEN [ret |-> "Err", signers |-> << >>, keys |-> EmptyMap]
    ELSE [ret |-> "-", signers |-> Tail(sgs),
          keys |-> IF Head(sgs).pub \in DOMAIN ks THEN ks
                   ELSE Insert(ks, Head(sgs).pub, Head(sgs).key_id)]

\* Keyring::from_signers, one iteration of its loop over the signers sgs
\* left, with the map ks filled so far: the `?` on public_key() returns
\* the error and drops everything; after the last signer, Ok(Self { keys }).
from_signers(sgs, ks) ==
    IF sgs = << >>
    THEN [ret |-> "Ok", signers |-> sgs, keys |-> ks]
    ELSE IF Head(sgs).pub = "fail"
    THEN [ret |-> "Err", signers |-> << >>, keys |-> EmptyMap]
    ELSE [ret |-> "-", signers |-> Tail(sgs),
          keys |-> Insert(ks, Head(sgs).pub, Head(sgs).key_id)]

\* Keyring::from_signers run to its return from the signers sgs left and
\* the map ks.
RECURSIVE from_signers_run(_, _)
from_signers_run(sgs, ks) ==
    LET r == from_signers(sgs, ks) IN
    IF r.ret = "-" THEN from_signers_run(r.signers, r.keys) ELSE r

\* Startup: Keyring::from_config runs from_signers; a Keyring comes out of
\* it only with Ok, and an error ends the start of the process.
FromSignersStep ==
    /\ proc = "startup"
    /\ LET r == from_signers(signers, keys) IN
       /\ signers' = r.signers
       /\ keys' = r.keys
       /\ keyring' = IF r.ret = "Ok" THEN {r.keys} ELSE keyring
       /\ proc' = IF r.ret = "Ok" THEN "running"
                  ELSE IF r.ret = "Err" THEN "failed" ELSE proc
    /\ UNCHANGED <<reconnect, pc, result, session, lastlog, joined, wire, waited>>

\* Client::spawn: start the validator's thread at client_loop.
Spawn(s) ==
    /\ proc = "running"
    /\ pc[s] = "idle"
    /\ pc' = [pc EXCEPT ![s] = "connect"]
    /\ UNCHANGED <<proc, signers, keys, keyring, reconnect, result, session,
                   lastlog, joined, wire, waited>>

\* A variant in which the Session of a session that ended stays alive.
Return_leak(s, o) ==
    LET r == catch_unwind(o) IN
    /\ UNCHANGED session
    /\ IF r.unwinds
       THEN /\ pc' = [pc EXCEPT ![s] = "panicked"]
            /\ UNCHANGED result
       ELSE /\ pc' = [pc EXCEPT ![s] = "result"]
            /\ result' = [result EXCEPT ![s] = r.value]

\* The thread's step out of client_session with outcome o: the Session,
\* a local of client_session, is dropped on return and on unwinding, and
\* its TcpStream with it.
Return(s, o) ==
    LET r == catch_unwind(o) IN
    /\ session' = [session EXCEPT ![s] = {}]
    /\ IF r.unwinds
       THEN /\ pc' = [pc EXCEPT ![s] = "panicked"]
            /\ UNCHANGED result
       ELSE /\ pc' = [pc EXCEPT ![s] = "result"]
            /\ result' = [result EXCEPT ![s] = r.value]

\* client_session, Session::new: dial the validator.
Dial(s) ==
    /\ proc = "running"
    /\ pc[s] = "connect"
    /\ \E o \in {OkUnit, ErrOf("ConnectionError")}
               \cup {PanicOf(p) : p \in Payloads} :
          IF o = OkUnit
          THEN /\ session' = [session EXCEPT ![s] =
                                 @ \cup {[rx |-> << >>, tx |-> << >>]}]
               /\ pc' = [pc EXCEPT ![s] = "serve"]
               /\ UNCHANGED result
          ELSE Return(s, o)
    /\ waited' = [waited EXCEPT ![s] = 0]
    /\ UNCHANGED <<proc, signers, keys, keyring, reconnect, lastlog, joined,
                   wire>>

NoRequest == [ok |-> FALSE, read |-> << >>, wrote |-> << >>, err |-> "-"]

\* Every way one call of Session::handle_request can go on a session that
\* has read n requests so far: its result, or a panic raised inside it.
Outcomes(kr, n) ==
    { [panic |-> "none", h |-> handle_request(kr, rd, so, wo)] :
        rd \in {x \in ReadOutcomes : x.ok => n < MaxReqs},
        so \in {"ok", "fail"}, wo \in BOOLEAN }
    \cup { [panic |-> p, h |-> NoRequest] : p \in Payloads }

\* A variant in which signing takes the signers out of the map and puts
\* them back only after a signature has been made.
Keyring_taken(kr, o) ==
    IF o.panic = "none" /\ o.h.ok THEN kr ELSE EmptyMap

\* The Keyring after a call of handle_request that went as o: the session
\* holds it as Arc<Keyring> and signs through a shared reference, the map
\* is a plain HashMap.
Keyring_shared(kr, o) == kr

\* client_session, one turn of its loop: Session::handle_request.
HandleRequest(s) ==
    /\ proc = "running"
    /\ pc[s] = "serve"
    /\ \E se \in session[s], kr \in keyring :
          \E o \in Outcomes(kr, Len(se.rx)) :
             /\ keyring' = {Keyring_shared(kr, o)}
             /\ IF o.panic # "none"
                THEN Return(s, PanicOf(o.panic))
                ELSE IF o.h.ok
                THEN /\ session' = [session EXCEPT ![s] =
                           (@ \ {se}) \cup {[rx |-> se.rx \o o.h.read,
                                             tx |-> se.tx \o o.h.wrote]}]
                     /\ UNCHANGED <<pc, result>>
                ELSE Return(s, ErrOf(o.h.err))
    /\ UNCHANGED <<proc, signers, keys, reconnect, lastlog, joined, wire, waited>>

\* A variant in which a panic, once logged, ends the loop.
Classify_stop_on_panic(s) ==
    /\ proc = "running"
    /\ pc[s] = "result"
    /\ lastlog' = [lastlog EXCEPT ![s] = LogLine(s, result[s])]
    /\ pc' = [pc EXCEPT ![s] = IF result[s].tag \in {"Ok", "Panic"}
                                THEN "done" ELSE "policy"]
    /\ UNCHANGED <<proc, signers, keys, keyring, reconnect, result, session,
                   joined, wire, waited>>

\* client_loop: match on the result of catch_unwind and log it; a graceful
\* close returns from the loop.
Classify(s) ==
    /\ proc = "running"
    /\ pc[s] = "result"
    /\ lastlog' = [lastlog EXCEPT ![s] = LogLine(s, result[s])]
    /\ pc' = [pc EXCEPT ![s] = IF result[s].tag = "Ok" THEN "done"
                                ELSE "policy"]
    /\ UNCHANGED <<proc, signers, keys, keyring, reconnect, result, session,
                   joined, wire, waited>>

\* A variant that starts the next iteration at once.
Policy_no_sleep(s) ==
    /\ proc = "running"
    /\ pc[s] = "policy"
    /\ pc' = [pc EXCEPT ![s] = IF ReconnectDisabled(reconnect[s])
                                THEN "done" ELSE "connect"]
    /\ UNCHANGED <<proc, signers, keys, keyring, reconnect, result, session,
                   lastlog, joined, wire, waited>>

\* client_loop: the reconnect check after a failed session.
Policy(s) ==
    /\ proc = "running"
    /\ pc[s] = "policy"
    /\ pc' = [pc EXCEPT ![s] = IF ReconnectDisabled(reconnect[s])
                                THEN "done" ELSE "sleep"]
    /\ UNCHANGED <<proc, signers, keys, keyring, reconnect, result, session,
                   lastlog, joined, wire, waited>>

\* client_loop: thread::sleep(RESPAWN_DELAY) is over, next iteration.
Sleep(s) ==
    /\ proc = "running"
    /\ pc[s] = "sleep"
    /\ pc' = [pc EXCEPT ![s] = "connect"]
    /\ result' = [result EXCEPT ![s] = NoResult]
    /\ waited' = [waited EXCEPT ![s] = @ + RESPAWN_DELAY]
    /\ UNCHANGED <<proc, signers, keys, keyring, reconnect, session, lastlog,
                   joined, wire>>

\* A variant in which join returns without waiting for the thread.
Join_early(s) ==
    /\ proc = "running"
    /\ s \notin joined
    /\ joined' = joined \cup {s}
    /\ UNCHANGED <<proc, pc, session>>
    /\ UNCHANGED <<signers, keys, keyring, reconnect, result, lastlog, wire,
                   waited>>

\* Client::join: handle.join().unwrap() on a finished thread.  A thread
\* that ended by a panic makes unwrap panic in the caller, which ends the
\* process and every thread in it.
Join(s) ==
    /\ proc = "running"
    /\ s \notin joined
    /\ pc[s] \in {"done", "panicked"}
    /\ IF pc[s] = "done"
       THEN /\ joined' = joined \cup {s}
            /\ UNCHANGED <<proc, pc, session>>
       ELSE /\ proc' = "crashed"
            /\ pc' = [t \in Sups |-> "killed"]
            /\ session' = [t \in Sups |-> {}]
            /\ UNCHANGED joined
    /\ UNCHANGED <<signers, keys, keyring, reconnect, result, lastlog, wire, waited>>

SupStep(s) ==
    \/ Spawn(s)
    \/ Dial(s)
    \/ HandleRequest(s)
    \/ Classify(s)
    \/ Policy(s)
    \/ Sleep(s)

Next ==
    \/ FromSignersStep
    \/ \E s \in Sups : SupStep(s)
    \/ \E s \in Sups : Join(s)

Spec == Init /\ [][Next]_vars

\* Keyring::from_signers alone, over every list of signers of the pool.
BuildInit ==
    /\ proc = "startup"
    /\ signers \in BoundedSeqs(SignerPool, MaxSigners)
    /\ keys = EmptyMap
    /\ keyring = {}
    /\ reconnect = [s \in Sups |-> "unset"]
    /\ pc = [s \in Sups |-> "idle"]
    /\ result = [s \in Sups |-> NoResult]
    /\ session = [s \in Sups |-> {}]
    /\ lastlog = [s \in Sups |-> NoLog]
    /\ joined = {}
    /\ wire = WireIdle
    /\ waited = [s \in Sups |-> 0]

BuildSpec == BuildInit /\ [][FromSignersStep]_vars

\* The sender of a message encodes it.
WireEncode ==
    /\ wire.stage = "message"
    /\ wire' = [wire EXCEPT !.stage = "encoded", !.bytes = to_vec(wire.value)]
    /\ UNCHANGED <<proc, signers, keys, keyring, reconnect, pc, result,
                   session, lastlog, joined, waited>>

\* The receiver reads it from the stream.
WireDecode ==
    /\ wire.stage = "encoded"
    /\ wire' = [wire EXCEPT !.stage = "decoded",
                            !.back = read(wire.value.kind, wire.bytes)]
    /\ UNCHANGED <<proc, signers, keys, keyring, reconnect, pc, result,
                   session, lastlog, joined, waited>>

\* One message through the wire format, over every message of
\* WireMessages.
WireInit ==
    /\ proc = "running"
    /\ signers = << >>
    /\ keys = EmptyMap
    /\ keyring = {EmptyMap}
    /\ reconnect = [s \in Sups |-> "unset"]
    /\ pc = [s \in Sups |-> "idle"]
    /\ result = [s \in Sups |-> NoResult]
    /\ session = [s \in Sups |-> {}]
    /\ lastlog = [s \in Sups |-> NoLog]
    /\ joined = {}
    /\ waited = [s \in Sups |-> 0]
    /\ wire \in { [WireIdle EXCEPT !.stage = "message", !.value = m] :
                    m \in WireMessages }

WireSpec == WireInit /\ [][WireEncode \/ WireDecode]_vars

\* A client thread that can take a step of its own takes one: the dial
\* returns, the match, the reconnect check and the sleep end.  Nothing
\* makes a validator send a request or close: HandleRequest is not fair.
ThreadStep(s) == Spawn(s) \/ Dial(s) \/ Classify(s) \/ Policy(s) \/ Sleep(s)

\* The liveness runs start from the configuration of one signer (key k1
\* is served, key k2 is unknown): every reconnect setting for validator
\* v1 beside a validator v2 that is not to be reconnected, and the two
\* settings that reconnect side by side.
LiveInit ==
    /\ Init
    /\ signers = << [key_id |-> "a", pub |-> "k1"] >>
    /\ \/ reconnect["v2"] = "false"
       \/ reconnect["v1"] = "unset" /\ reconnect["v2"] = "true"

LiveSpec ==
    /\ LiveInit
    /\ [][Next]_vars
    /\ WF_vars(FromSignersStep)
    /\ \A s \in Sups : WF_vars(ThreadStep(s))

\* ------------------------------------------------------------------ claims
\* A session of s has ended other than gracefully and the thread has not
\* yet started its next iteration.
Failed(s) == result[s].tag \in {"Err", "Panic"}

\* C1: with reconnect = false, once the first session has ended with an
\* error or a caught panic the thread dials no more (it holds no session
\* and is at the match, at the reconnect check or finished), and from
\* there it reaches the end of client_loop.
C1_ReconnectDisabledStops ==
    \A s \in Sups :
        reconnect[s] = "false" =>
            /\ [](Failed(s) => /\ pc[s] \in {"result", "policy", "done"}
                               /\ session[s] = {})
            /\ [](lastlog[s] # NoLog => pc[s] \in {"policy", "done"})
            /\ (Failed(s) ~> pc[s] = "done")

C1_Witness ==
    \E s \in Sups :
        /\ reconnect[s] = "false"
        /\ pc[s] = "done"
        /\ result[s] = ErrOf("InvalidKey")

\* C2: with reconnect unset or true, every failed session is followed by
\* a new dial, and if every session ends then the thread dials again and
\* again; unset and true are treated alike.
C2_ReconnectsForever ==
    \A s \in Sups :
        reconnect[s] \in {"unset", "true"} =>
            /\ (Failed(s) ~> pc[s] = "connect")
            /\ (pc[s] = "connect" ~> pc[s] \in {"serve", "result"})
            /\ [](pc[s] # "done")
            /\ (<>(proc = "running") /\ (pc[s] = "serve" ~> pc[s] # "serve"))
                   => []<>(pc[s] = "connect")

C2_Witness ==
    \E s, t \in Sups :
        /\ reconnect[s] = "unset" /\ reconnect[t] = "true"
        /\ pc[s] = "connect" /\ lastlog[s] # NoLog
        /\ pc[t] = "connect" /\ lastlog[t] # NoLog

\* C3: a session whose read met the end of the stream is a graceful
\* close: once the thread has matched on it, the line logged is the
\* graceful one and the thread is finished, whatever reconnect says.
C3_GracefulOnEof ==
    \A s \in Sups :
        (result[s].detail = "Eof" /\ pc[s] # "result") =>
            /\ lastlog[s].text = "session closed gracefully"
            /\ pc[s] = "done"

\* C4: a panic inside Session::new or handle_request comes back from
\* catch_unwind as a result, the thread lives on, the match logs it as a
\* client panic, and the reconnect check that follows depends on reconnect
\* alone, as after an error.
C4_FaultContained ==
    [][\A s \in Sups :
        /\ pc'[s] \notin {"panicked", "killed"}
        /\ proc' # "crashed"
        /\ (result'[s] # result[s] /\ result'[s].tag = "Panic")
               => pc'[s] = "result"
        /\ (pc[s] = "result" /\ result[s].tag = "Panic" /\ pc'[s] # pc[s])
               => /\ lastlog'[s].text = "client panic!"
                  /\ lastlog'[s].target = s
                  /\ pc'[s] = "policy"
        /\ (pc[s] = "policy" /\ pc'[s] # pc[s])
               => pc'[s] = IF reconnect[s] = "false" THEN "done" ELSE "sleep"
      ]_vars

C4_Witness ==
    \E s, t \in Sups :
        /\ pc[s] = "done" /\ result[s].tag = "Panic"
        /\ pc[t] = "sleep" /\ result[t].tag = "Panic"

\* C5 as stated: a caught panic always ends in a log line and a respawn.
C5_FaultAlwaysRespawns ==
    \A s \in Sups :
        result[s].tag = "Panic" =>
            /\ proc = "running"
            /\ pc[s] \in {"result", "policy", "sleep"}
            /\ pc[s] # "result" => lastlog[s].text = "client panic!"

\* C5, amended: a caught panic always ends in a log line, followed by a
\* respawn unless reconnect = false, in which case the thread finishes;
\* the process never crashes.
C5_FaultLoggedThenPolicy ==
    \A s \in Sups :
        result[s].tag = "Panic" =>
            /\ proc = "running"
            /\ pc[s] \in {"result", "policy", "sleep", "done"}
            /\ pc[s] # "result" => /\ lastlog[s].text = "client panic!"
                                   /\ lastlog[s].target = s
            /\ pc[s] = "sleep" => reconnect[s] # "false"
            /\ pc[s] = "done" => reconnect[s] = "false"

C5_Witness ==
    \E s \in Sups :
        /\ pc[s] = "sleep"
        /\ result[s] = PanicOf("unknown")

\* C6: a step changes the state of at most one validator's thread and
\* leaves the process and the keyring alone, no thread is ever ended from
\* outside, and while one thread sits on a failed session every other
\* thread can still dial, and a serving one can still answer a request.
C6_SiblingIsolation ==
    /\ [][\A s \in Sups :
            supvars(s)' # supvars(s) =>
                /\ \A t \in Sups \ {s} : supvars(t)' = supvars(t)
                /\ proc' = proc
                /\ keyring' = keyring
         ]_vars
    /\ [](\A s \in Sups : pc[s] \notin {"panicked", "killed"})
    /\ [](\A s \in Sups : \A t \in Sups \ {s} :
            Failed(s) =>
                /\ pc[t] = "connect" =>
                       ENABLED (Dial(t) /\ pc'[t] = "serve")
                /\ (pc[t] = "serve"
                    /\ \E se \in session[t] : Len(se.rx) < MaxReqs
                    /\ \E kr \in keyring : DOMAIN kr # {}) =>
                       ENABLED (HandleRequest(t) /\ pc'[t] = "serve"))

C6_Witness ==
    \E s \in Sups : \E t \in Sups \ {s} :
        /\ result[s].tag = "Panic"
        /\ pc[s] = "sleep"
        /\ pc[t] = "serve"
        /\ \E se \in session[t] : Len(se.tx) = 1

\* C7: every request a serving session has read and come through asked
\* for a key of the keyring, and was answered by exactly one
\* Response::Sign whose signature is the one of the signer the keyring
\* holds for that key over the message of the request; the thread is then
\* still serving.  A request for a held key whose signer and write both
\* succeed is always answered so.
C7_SignAnswered ==
    /\ \A s \in Sups : \A se \in session[s] : \A kr \in keyring :
          /\ pc[s] = "serve"
          /\ Len(se.tx) = Len(se.rx)
          /\ \A i \in 1..Len(se.rx) :
                LET rq == se.rx[i] IN
                /\ rq.public_key.len = 32
                /\ rq.public_key.val \in DOMAIN kr
                /\ se.tx[i] = [tag |-> 0,
                               sig |-> Signature(kr[rq.public_key.val],
                                                 rq.msg)]
                /\ Verifies(rq.public_key.val, rq.msg, se.tx[i].sig)
    /\ \A kr \in keyring : \A rd \in ReadOutcomes :
          (rd.ok /\ rd.req.public_key.len = 32
                 /\ rd.req.public_key.val \in DOMAIN kr) =>
              LET h == handle_request(kr, rd, "ok", TRUE) IN
              /\ h.ok
              /\ Len(h.wrote) = 1
              /\ h.wrote[1].sig = Signature(kr[rd.req.public_key.val],
                                            rd.req.msg)

C7_Witness ==
    \E s \in Sups : \E se \in session[s] : \E kr \in keyring :
        /\ pc[s] = "serve"
        /\ Len(se.rx) = 1
        /\ se.rx[1].public_key.val = "k1"
        /\ se.rx[1].msg = <<1>>
        /\ kr["k1"] = "b"
        /\ Len(se.tx) = 1

\* C8: Keyring::sign for a key that the keyring does not hold fails with
\* InvalidKey, whatever the message, and the keyring's map is the same
\* after every step of the running process.
C8_UnknownKey ==
    /\ [](\A kr \in keyring : \A pk \in Pks \ DOMAIN kr : \A m \in Msgs :
            \A so \in {"ok", "fail"} :
               LET r == Keyring_sign(kr, pk, m, so) IN
               ~r.ok /\ r.err = "InvalidKey")
    /\ [][keyring # {} => keyring' = keyring]_vars

C8_Witness ==
    \E s \in Sups : \E kr \in keyring :
        /\ result[s] = ErrOf("InvalidKey")
        /\ DOMAIN kr = {"k1"}

\* C9: when Keyring::sign fails with InvalidKey or ProviderError,
\* handle_request writes nothing and returns that error; a thread whose
\* session ended so holds no session any more and is at the match, at the
\* reconnect check, asleep before the next dial, or finished.
C9_NoInBandError ==
    /\ \A kr \in keyring : \A rd \in ReadOutcomes :
       \A so \in {"ok", "fail"} : \A wo \in BOOLEAN :
          (rd.ok /\ rd.req.public_key.len = 32) =>
              LET k == Keyring_sign(kr, rd.req.public_key.val, rd.req.msg, so)
                  h == handle_request(kr, rd, so, wo)
              IN  ~k.ok => (~h.ok /\ h.wrote = << >> /\ h.err = k.err)
    /\ \A s \in Sups :
          (result[s].tag = "Err"
           /\ result[s].detail \in {"InvalidKey", "ProviderError"}) =>
              /\ session[s] = {}
              /\ pc[s] \in {"result", "policy", "sleep", "done"}
              /\ pc[s] = "sleep" => reconnect[s] # "false"
              /\ pc[s] = "done" => reconnect[s] = "false"

C9_Witness ==
    \E s, t \in Sups :
        /\ result[s] = ErrOf("ProviderError") /\ pc[s] = "sleep"
        /\ result[t] = ErrOf("InvalidKey") /\ pc[t] = "done"

\* C10: from_signers hands out a Keyring only after it has visited every
\* signer, and then with the map it has filled; a signer whose public key
\* cannot be derived ends it with the error, and no Keyring exists then or
\* later.
C10_AllOrNothing ==
    /\ [][(proc = "startup" /\ signers # << >>
           /\ Head(signers).pub = "fail")
              => (proc' = "failed" /\ keyring' = {})]_vars
    /\ [][keyring' # keyring =>
              (signers = << >> /\ keyring' = {keys}
               /\ proc' = "running")]_vars
    /\ [](proc = "failed" => (keyring = {} /\ \A s \in Sups : pc[s] = "idle"))
    /\ [](proc = "startup" => keyring = {})

C10_Witness ==
    /\ proc = "failed"
    /\ keyring = {}

\* C11: once built, the Keyring's map is the one from_signers filled, in
\* every state of the running process: no call of handle_request changes
\* it, whether it signs, fails with InvalidKey or ProviderError, or panics.
C11_KeyringImmutable ==
    /\ [](proc = "running" => keyring = {keys})
    /\ [][\A s \in Sups :
            (proc = "running" /\ supvars(s)' # supvars(s)) =>
                (keyring' = keyring /\ keys' = keys)]_vars

C11_Witness ==
    \E s \in Sups : \E t \in Sups \ {s} :
        /\ result[s] = ErrOf("ProviderError")
        /\ result[t] = ErrOf("InvalidKey")
        /\ \E kr \in keyring : DOMAIN kr = {"k1"} /\ kr = keys

\* The positions of sgs whose signer derives the public key pk.
Holders(sgs, pk) == {i \in 1..Len(sgs) : sgs[i].pub = pk}

Last(S) == CHOOSE i \in S : \A j \in S : j <= i

\* C12: from_signers over signers that all derive a public key succeeds,
\* duplicates included; the map it returns has one entry for each distinct
\* public key, and a key that several signers derive is mapped to the last
\* of them in the list (keys of the map filled before keep their signer
\* unless a signer of the list derives them).  The Keyring built is that map.
C12_LastSignerWins ==
    /\ proc = "startup" =>
          LET r == from_signers_run(signers, keys) IN
          /\ (r.ret = "Ok") = (Holders(signers, "fail") = {})
          /\ r.ret = "Ok" =>
                /\ DOMAIN r.keys =
                       DOMAIN keys \cup {signers[i].pub : i \in 1..Len(signers)}
                /\ \A pk \in DOMAIN r.keys :
                      r.keys[pk] =
                          IF Holders(signers, pk) # {}
                          THEN signers[Last(Holders(signers, pk))].key_id
                          ELSE keys[pk]
    /\ proc = "running" => keyring = {keys}

C12_Witness ==
    /\ proc = "startup"
    /\ signers = << [key_id |-> "b", pub |-> "k1"] >>
    /\ DOMAIN keys = {"k1", "k2"}
    /\ keys["k1"] = "a"
    /\ from_signers_run(signers, keys).keys["k1"] = "b"

\* C13: a Request::Sign with a public key of 32 bytes and a message of at
\* most the maximum length, and a Response::Sign with a signature of 64
\* bytes, come out of read as they went into to_vec, with nothing left on
\* the stream; the encoding is the tag, the fixed fields and, for a
\* request, the length and the message.
C13_WireRoundTrip ==
    /\ wire.stage \in {"encoded", "decoded"} =>
          /\ wire.bytes[1] = 0
          /\ Len(wire.bytes) = IF wire.value.kind = "Request"
                               THEN 37 + Len(wire.value.msg) ELSE 65
    /\ wire.stage = "decoded" =>
          /\ wire.back.ok
          /\ wire.back.value = wire.value
          /\ wire.back.rest = << >>

C13_Witness ==
    /\ wire.stage = "decoded"
    /\ wire.value.kind = "Request"
    /\ Len(wire.value.msg) = MaxMsgLen
    /\ wire.value.msg[1] = 255
    /\ wire.back.value.msg = wire.value.msg
    /\ wire.back.value.public_key[1] = 7

\* C14: a validator's thread holds at most one live Session, and holds it
\* only while it serves: none while it has the result of a session in
\* hand, checks the reconnect setting, sleeps, dials again or has stopped.
C14_OneSession ==
    \A s \in Sups :
        /\ Cardinality(session[s]) <= 1
        /\ session[s] # {} => pc[s] = "serve"

C14_Witness ==
    \E s \in Sups : \E t \in Sups \ {s} :
        /\ pc[s] = "sleep"
        /\ result[s] = ErrOf("InvalidKey")
        /\ session[s] = {}
        /\ pc[t] = "serve"
        /\ \E se \in session[t] : Len(se.tx) = 1

\* C15: a session never has more responses written than requests read,
\* and each turn of a session that goes on reads exactly one request more,
\* after every earlier request has had its response, and appends exactly
\* the response to that request behind the earlier responses.
C15_InOrder ==
    /\ [](\A s \in Sups : \A se \in session[s] : Len(se.tx) <= Len(se.rx))
    /\ [][\A s \in Sups : \A se \in session[s] : \A sf \in session'[s] :
            sf # se =>
                /\ Len(se.tx) = Len(se.rx)
                /\ Len(sf.rx) = Len(se.rx) + 1
                /\ SubSeq(sf.rx, 1, Len(se.rx)) = se.rx
                /\ Len(sf.tx) = Len(se.tx) + 1
                /\ SubSeq(sf.tx, 1, Len(se.tx)) = se.tx
                /\ Verifies(sf.rx[Len(sf.rx)].public_key.val,
                            sf.rx[Len(sf.rx)].msg,
                            sf.tx[Len(sf.tx)].sig)]_vars

C15_Witness ==
    \E s \in Sups : \E se \in session[s] :
        /\ Len(se.rx) = 2 /\ Len(se.tx) = 2
        /\ se.rx[1].msg # se.rx[2].msg
        /\ se.tx[1].sig.msg = se.rx[1].msg
        /\ se.tx[2].sig.msg = se.rx[2].msg

\* C16: when a thread comes to the reconnect check after a failed session,
\* the line it has just logged is an error line that carries the
\* validator's label, its address and port and the cause of the failure.
C16_LoggedWithLabel ==
    \A s \in Sups :
        pc[s] = "policy" =>
            /\ Failed(s)
            /\ lastlog[s].level = "error"
            /\ lastlog[s].target = s
            /\ lastlog[s].detail =
                  IF result[s] = PanicOf("unknown") THEN "(unknown cause)"
                  ELSE result[s].detail
            /\ "label" \in DOMAIN lastlog[s]

C18_StoppedTerminal ==
    /\ [](\A s \in Sups : s \in joined => pc[s] = "done")
    /\ [](\A s \in Sups : (pc[s] = "done" /\ s \notin joined) =>
                              ENABLED Join(s))
    /\ [][\A s \in Sups :
            /\ pc[s] = "done" =>
                  /\ pc'[s] = "done"
                  /\ session[s] = {} /\ session'[s] = {}
                  /\ result'[s] = result[s]
            /\ (s \in joined' /\ s \notin joined) => pc[s] = "done"]_vars

C18_Witness ==
    \E s \in Sups : \E t \in Sups \ {s} :
        /\ s \in joined
        /\ pc[s] = "done"
        /\ result[s] = PanicOf("unknown")
        /\ t \notin joined
        /\ pc[t] = "serve"
        /\ lastlog[t] # NoLog

\* C19: a request whose public key is not 32 bytes long fails with a
\* ProtocolError whatever the keyring holds and whatever the signer and
\* the socket would do, with nothing written; and a session that ends
\* with a ProtocolError is dropped and its result handed to the match.
C19_BadKeyLength ==
    /\ [](\A kr \in keyring : \A rd \in ReadOutcomes :
            (rd.ok /\ rd.req.public_key.len # 32) =>
                \A so \in {"ok", "fail"} : \A wo \in BOOLEAN :
                    LET h == handle_request(kr, rd, so, wo) IN
                    /\ ~h.ok
                    /\ h.err = "ProtocolError"
                    /\ h.wrote = << >>
                    /\ h = handle_request(EmptyMap, rd, "fail", FALSE))
    /\ [][\A s \in Sups :
            (pc[s] = "serve" /\ result'[s] # result[s]
                /\ result'[s] = ErrOf("ProtocolError")) =>
                /\ session'[s] = {}
                /\ pc'[s] = "result"]_vars

C19_Witness ==
    \E s \in Sups : \E kr \in keyring : \E rd \in ReadOutcomes :
        /\ rd.ok
        /\ rd.req.public_key.len = 31
        /\ rd.req.public_key.val \in DOMAIN kr
        /\ ErrOf(handle_request(kr, rd, "ok", TRUE).err) = result[s]
        /\ pc[s] = "result"
        /\ session[s] = {}
        /\ lastlog[s] = NoLog

\* C20: a thread whose reconnect option is unset or true is never finished
\* with a failed session in hand: from a failed result it goes to the
\* reconnect check and from there to sleep, whatever the error or the
\* panic was, and it finishes only on a session that returned Ok.
C20_OnlyGracefulStops ==
    /\ [](\A s \in Sups :
            (reconnect[s] # "false" /\ pc[s] = "done") => result[s] = OkUnit)
    /\ [][\A s \in Sups :
            (reconnect[s] # "false" /\ Failed(s)) =>
                /\ pc[s] = "result" => pc'[s] \in {"result", "policy"}
                /\ pc[s] = "policy" => pc'[s] \in {"policy", "sleep"}
                /\ pc'[s] \notin {"done", "panicked", "killed"}]_vars

C20_Witness ==
    \E s \in Sups : \E t \in Sups \ {s} :
        /\ reconnect[s] = "unset"
        /\ pc[s] = "sleep"
        /\ result[s] = PanicOf("msg")
        /\ reconnect[t] = "true"
        /\ pc[t] = "sleep"
        /\ result[t] = ErrOf("ProviderError")

====
